---------------------------- MODULE Spec2Model ----------------------------
(***************************************************************************)
(* Model of src/heap/spaces.cc: SpaceWithLinearArea::ComputeLimit and its *)
(* observer delegation, the LocalAllocationBuffer lifecycle, and           *)
(* SpaceIterator.                                                          *)
(***************************************************************************)
EXTENDS Integers, Sequences, FiniteSets

VARIABLES cl,       \* one ComputeLimit call: the heap/space state it reads,
                    \* its arguments, and its result once it has returned
          labs,     \* the LocalAllocationBuffer objects, by slot
          fillers,  \* log of Heap::CreateFillerObjectAtBackground calls
          held,     \* every non-null area some buffer has held so far
          last,     \* the last LocalAllocationBuffer operation and its result
          ops,      \* number of LocalAllocationBuffer operations so far
          log,      \* the filler writes of MakeIterable() and the areas
                    \* returned by CloseAndMakeIterable(), in order
          nbuilt,   \* number of constructions with a non-null area
          it,       \* a SpaceIterator, the heap's spaces and its last call
          obs       \* the allocation observers of the space's allocator

vars == <<cl, labs, fillers, held, last, ops, log, nbuilt, it, obs>>

Min(a, b) == IF a <= b THEN a ELSE b
Max(a, b) == IF a >= b THEN a ELSE b

RECURSIVE Pow2(_)
Pow2(n) == IF n = 0 THEN 1 ELSE 2 * Pow2(n - 1)

(***************************************************************************)
(* Integer widths.  The build has a 32-bit int and a 64-bit size_t; the    *)
(* model keeps both conversions of line 74-75 but scales the widths so     *)
(* that values beyond the int range are among the inputs.                  *)
(***************************************************************************)
IntBits == 5
SizeBits == 8
IntMod == Pow2(IntBits)
SizeMod == Pow2(SizeBits)
IntMax == IntMod \div 2 - 1

\* static_cast<int>(x) of a size_t: the low IntBits bits, read as signed.
CastToInt(x) ==
  LET m == x % IntMod
  IN  IF m > IntMax THEN m - IntMod ELSE m

\* static_cast<size_t>(x) of an int: x modulo 2^SizeBits.
CastToSizeT(x) == x % SizeMod

\* size_t / Address arithmetic wraps at the width of size_t.
SizeAdd(a, b) == (a + b) % SizeMod
SizeSub(a, b) == (a - b) % SizeMod

kObjectAlignment == 8

\* size & ~kObjectAlignmentMask on a two's complement int.
RoundSizeDownToObjectAlignment(size) == size - (size % kObjectAlignment)

kStressMarkingStep == 64

(***************************************************************************)
(* SpaceWithLinearArea::ComputeLimit                                       *)
(***************************************************************************)
\* lines 74-75: the step - 1, cast to int, rounded down, cast back.
RoundedStepNoDecrement(step) ==
  CastToSizeT(RoundSizeDownToObjectAlignment(CastToInt(step)))

RoundedStep(step) ==
  CastToSizeT(RoundSizeDownToObjectAlignment(CastToInt(SizeSub(step, 1))))

\* lines 63-81: step_size as it stands at the final DCHECK_LE.
StepSizeNoStress(supports, active, step, stress, start, end) ==
  LET whole == SizeSub(end, start)
  IN  IF supports /\ active THEN Min(whole, RoundedStep(step)) ELSE whole

StepSizeAnySpace(supports, active, step, stress, start, end) ==
  LET whole == SizeSub(end, start)
      observed == IF active THEN Min(whole, RoundedStep(step)) ELSE whole
  IN  IF stress THEN Min(observed, kStressMarkingStep) ELSE observed

StepSizeAssigned(supports, active, step, stress, start, end) ==
  LET whole == SizeSub(end, start)
      observed == IF supports /\ active THEN RoundedStep(step) ELSE whole
  IN  IF stress THEN Min(observed, kStressMarkingStep) ELSE observed

StepSizeIgnoresActive(supports, active, step, stress, start, end) ==
  LET whole == SizeSub(end, start)
      observed == IF supports THEN Min(whole, RoundedStep(step)) ELSE whole
  IN  IF stress THEN Min(observed, kStressMarkingStep) ELSE observed

StepSize(supports, active, step, stress, start, end) ==
  LET whole == SizeSub(end, start)
      observed == IF supports /\ active
                  THEN Min(whole, RoundedStep(step))
                  ELSE whole
  IN  IF stress THEN Min(observed, kStressMarkingStep) ELSE observed

ComputeLimitNoMax(in_gc, inline, supports, active, step, stress, start, end, min_size) ==
  IF in_gc THEN end
  ELSE IF ~inline THEN SizeAdd(start, min_size)
  ELSE SizeAdd(start, StepSize(supports, active, step, stress, start, end))

ComputeLimitInlineFirst(in_gc, inline, supports, active, step, stress, start, end, min_size) ==
  IF ~inline THEN SizeAdd(start, min_size)
  ELSE IF in_gc THEN end
  ELSE SizeAdd(start,
               Max(StepSize(supports, active, step, stress, start, end),
                   min_size))

ComputeLimitDisabledWhole(in_gc, inline, supports, active, step, stress, start, end, min_size) ==
  IF in_gc \/ ~inline THEN end
  ELSE SizeAdd(start,
               Max(StepSize(supports, active, step, stress, start, end),
                   min_size))

ComputeLimit(in_gc, inline, supports, active, step, stress, start, end, min_size) ==
  IF in_gc THEN end
  ELSE IF ~inline THEN SizeAdd(start, min_size)
  ELSE SizeAdd(start,
               Max(StepSize(supports, active, step, stress, start, end),
                   min_size))

(***************************************************************************)
(* Inputs of the ComputeLimit check.                                       *)
(***************************************************************************)
MaxStart == 1        \* start ranges over 0..MaxStart
MaxSize == 66        \* end - start ranges over 0..MaxSize
MaxMinLow == 2       \* min_size is at most MaxMinLow, or
MaxSlack == 2        \* at most MaxSlack below end - start
MaxNextBytes == 34   \* NextBytes() ranges over 1..MaxNextBytes

MinSizes(size) ==
  {m \in 0..size : m <= MaxMinLow \/ size - m <= MaxSlack}

\* no SpaceIterator in use
ItIdle == it = [op |-> "none"]

\* no observer registered, not paused
ObsIdle == obs = [count |-> 0, paused |-> FALSE, resumed |-> FALSE]

LabIdle ==
  /\ labs = <<>>
  /\ fillers = <<>>
  /\ held = {}
  /\ last = [op |-> "none"]
  /\ ops = 0
  /\ log = <<>>
  /\ nbuilt = 0

InitLimit ==
  /\ \E g \in BOOLEAN, i \in BOOLEAN, s \in BOOLEAN, a \in BOOLEAN,
        f \in BOOLEAN, k \in 1..MaxNextBytes,
        st \in 0..MaxStart, sz \in 0..MaxSize :
       \E m \in MinSizes(sz) :
         cl = [in_gc |-> g, inline |-> i, supports |-> s, active |-> a,
               next_bytes |-> k, stress |-> f,
               start |-> st, end |-> st + sz, min_size |-> m,
               returned |-> FALSE, step_size |-> 0, limit |-> 0]
  /\ LabIdle
  /\ ItIdle
  /\ ObsIdle

CallComputeLimit ==
  /\ ~cl.returned
  /\ cl' = [cl EXCEPT !.returned = TRUE,
              !.step_size =
                StepSize(cl.supports, cl.active, cl.next_bytes, cl.stress,
                         cl.start, cl.end),
              !.limit =
                ComputeLimit(cl.in_gc, cl.inline, cl.supports, cl.active,
                             cl.next_bytes, cl.stress,
                             cl.start, cl.end, cl.min_size)]
  /\ UNCHANGED <<labs, fillers, held, last, ops, log, nbuilt, it, obs>>

NextLimit == CallComputeLimit

SpecLimit == InitLimit /\ [][NextLimit]_vars

(***************************************************************************)
(* LocalAllocationBuffer                                                   *)
(***************************************************************************)
NumBuffers == 2      \* LocalAllocationBuffer objects
MaxAddr == 2         \* addresses of the areas range over 1..MaxAddr
MaxOps == 4          \* operations in one run

kNullAddress == 0

Buffers == 1..NumBuffers
Heaps == {"heap1", "heap2"}
NoHeap == "nullptr"

\* LinearAllocationArea(top, limit): start is set to top.
LinearAllocationArea(top, limit) ==
  [start |-> top, top |-> top, limit |-> limit]

NullArea == LinearAllocationArea(kNullAddress, kNullAddress)

\* the non-null areas a buffer is constructed with: a fresh area
\* LinearAllocationArea(top, limit) with kNullAddress < top <= limit
Areas ==
  {LinearAllocationArea(p[1], p[2]) :
     p \in {q \in (1..MaxAddr) \X (1..MaxAddr) : q[1] <= q[2]}}

\* storage in which no buffer has been constructed yet
NotConstructed == [constructed |-> FALSE, heap |-> NoHeap, info |-> NullArea]

IsConstructed(lab) == lab.constructed

\* IsValid(): the owned area is not the null area.
IsValid(lab) == lab.info # NullArea

FillerCallFromStart(lab) ==
  [heap |-> lab.heap, addr |-> lab.info.top,
   size |-> CastToInt(SizeSub(lab.info.limit, kNullAddress))]

\* one Heap::CreateFillerObjectAtBackground(addr, size) call
FillerCall(lab) ==
  [heap |-> lab.heap, addr |-> lab.info.top,
   size |-> CastToInt(SizeSub(lab.info.limit, lab.info.top))]

\* The filler calls MakeIterable() makes on lab.
MakeIterableCalls(lab) ==
  IF IsValid(lab) THEN <<FillerCall(lab)>> ELSE <<>>

CloseCallsUnguarded(lab) == <<FillerCall(lab)>>

CloseCallsTwice(lab) ==
  IF IsValid(lab)
  THEN MakeIterableCalls(lab) \o MakeIterableCalls(lab)
  ELSE <<>>

\* The filler calls CloseAndMakeIterable() makes on lab.
CloseCalls(lab) ==
  IF IsValid(lab) THEN MakeIterableCalls(lab) ELSE <<>>

CloseResultKeepsArea(lab) == lab

\* The buffer CloseAndMakeIterable() leaves behind.
CloseResult(lab) ==
  IF IsValid(lab)
  THEN [lab EXCEPT !.info = LinearAllocationArea(kNullAddress, kNullAddress)]
  ELSE lab

\* The area CloseAndMakeIterable() returns.
CloseReturn(lab) ==
  IF IsValid(lab)
  THEN lab.info
  ELSE LinearAllocationArea(kNullAddress, kNullAddress)

MoveAssignedNoReset(L, dst, src) ==
  [L EXCEPT ![dst] = [constructed |-> TRUE,
                      heap |-> L[src].heap,
                      info |-> L[src].info]]

\* operator=(LocalAllocationBuffer&& other), this = L[dst], other = L[src]:
\* the two assignments, then the reset of other (dst = src is the same
\* object: it ends reset).
MoveAssigned(L, dst, src) ==
  [[L EXCEPT ![dst] = [constructed |-> TRUE,
                       heap |-> L[src].heap,
                       info |-> L[src].info]]
      EXCEPT ![src].info = LinearAllocationArea(kNullAddress, kNullAddress)]

Record(op, self, other, arg, ret) ==
  [op |-> op, self |-> self, other |-> other, arg |-> arg, ret |-> ret,
   before |-> labs, nfill |-> Len(fillers),
   prev |-> [op |-> last.op, self |-> last.self]]

\* the log entry of an operation on the area in S (none for S empty)
Logged(op, S) ==
  IF S = {} THEN <<>> ELSE <<[op |-> op, area |-> CHOOSE a \in S : TRUE]>>

\* LocalAllocationBuffer(Heap* heap, LinearAllocationArea allocation_info)
Construct(i, h, a) ==
  /\ ops < MaxOps
  /\ ~IsConstructed(labs[i])
  /\ labs' = [labs EXCEPT ![i] =
                [constructed |-> TRUE, heap |-> h, info |-> a]]
  /\ held' = held \cup ({a} \ {NullArea})
  /\ last' = Record("construct", i, i, a, NullArea)
  /\ ops' = ops + 1
  /\ nbuilt' = IF a # NullArea THEN nbuilt + 1 ELSE nbuilt
  /\ UNCHANGED log
  /\ UNCHANGED <<cl, it, obs, fillers>>

\* LocalAllocationBuffer(LocalAllocationBuffer&& other)
MoveConstruct(i, j) ==
  /\ ops < MaxOps
  /\ ~IsConstructed(labs[i])
  /\ IsConstructed(labs[j])
  /\ labs' = MoveAssigned(labs, i, j)
  /\ last' = Record("move", i, j, NullArea, NullArea)
  /\ ops' = ops + 1
  /\ UNCHANGED <<cl, it, obs, fillers, held, log, nbuilt>>

\* operator=(LocalAllocationBuffer&& other)
MoveAssign(i, j) ==
  /\ ops < MaxOps
  /\ IsConstructed(labs[i])
  /\ IsConstructed(labs[j])
  /\ labs' = MoveAssigned(labs, i, j)
  /\ last' = Record("move", i, j, NullArea, NullArea)
  /\ ops' = ops + 1
  /\ UNCHANGED <<cl, it, obs, fillers, held, log, nbuilt>>

MakeIterable(i) ==
  /\ ops < MaxOps
  /\ IsConstructed(labs[i])
  /\ fillers' = fillers \o MakeIterableCalls(labs[i])
  /\ last' = Record("iterable", i, i, NullArea, NullArea)
  /\ ops' = ops + 1
  /\ log' = log \o Logged("iterable",
                           {labs[i].info : k \in
                              1..Len(MakeIterableCalls(labs[i]))})
  /\ UNCHANGED <<cl, it, obs, labs, held, nbuilt>>

CloseAndMakeIterable(i) ==
  /\ ops < MaxOps
  /\ IsConstructed(labs[i])
  /\ fillers' = fillers \o CloseCalls(labs[i])
  /\ labs' = [labs EXCEPT ![i] = CloseResult(labs[i])]
  /\ last' = Record("close", i, i, NullArea, CloseReturn(labs[i]))
  /\ ops' = ops + 1
  /\ log' = log \o Logged("close", {CloseReturn(labs[i])} \ {NullArea})
  /\ UNCHANGED <<cl, it, obs, held, nbuilt>>

ClIdle ==
  cl = [in_gc |-> FALSE, inline |-> TRUE, supports |-> FALSE,
        active |-> FALSE, next_bytes |-> 1, stress |-> FALSE,
        start |-> 0, end |-> 0, min_size |-> 0,
        returned |-> FALSE, step_size |-> 0, limit |-> 0]

InitLab ==
  /\ ClIdle
  /\ ItIdle
  /\ ObsIdle
  /\ labs = [i \in Buffers |-> NotConstructed]
  /\ fillers = <<>>
  /\ held = {}
  /\ last = [op |-> "none", self |-> 1, other |-> 1, arg |-> NullArea,
             ret |-> NullArea, before |-> labs, nfill |-> 0,
             prev |-> [op |-> "none", self |-> 1]]
  /\ ops = 0
  /\ log = <<>>
  /\ nbuilt = 0

NextLab ==
  \/ \E i \in Buffers, h \in Heaps, a \in Areas \cup {NullArea} :
       Construct(i, h, a)
  \/ \E i \in Buffers, j \in Buffers : MoveConstruct(i, j)
  \/ \E i \in Buffers, j \in Buffers : MoveAssign(i, j)
  \/ \E i \in Buffers : MakeIterable(i)
  \/ \E i \in Buffers : CloseAndMakeIterable(i)

SpecLab == InitLab /\ [][NextLab]_vars

(***************************************************************************)
(* SpaceIterator                                                           *)
(***************************************************************************)
FIRST_MUTABLE_SPACE == 0
LAST_MUTABLE_SPACE == 7

SpaceIds == FIRST_MUTABLE_SPACE..LAST_MUTABLE_SPACE

\* a null Space*
NoSpace == -1

\* heap_->space(id) of a heap whose present spaces are S
SpaceAt(S, id) == IF id \in S THEN id ELSE NoSpace

HasNextCursorPreIncrement(S, c) ==
  IF \E id \in S : id > c
  THEN CHOOSE id \in S : id > c /\ \A o \in S : o > c => id <= o
  ELSE Max(c, LAST_MUTABLE_SPACE + 1)

HasNextCursorPastFound(S, c) ==
  IF \E id \in S : id >= c
  THEN 1 + CHOOSE id \in S : id >= c /\ \A o \in S : o >= c => id <= o
  ELSE Max(c, LAST_MUTABLE_SPACE + 1)

\* HasNext(): current_space_ when the loop of lines 178-182 ends
RECURSIVE HasNextCursor(_, _)
HasNextCursor(S, c) ==
  IF c <= LAST_MUTABLE_SPACE
  THEN IF SpaceAt(S, c) # NoSpace THEN c ELSE HasNextCursor(S, c + 1)
  ELSE c

HasNextResultBeforeScan(S, c) == c <= LAST_MUTABLE_SPACE

\* HasNext(): true from inside the loop, false after it
HasNextResult(S, c) == HasNextCursor(S, c) <= LAST_MUTABLE_SPACE

\* Next(): the space returned, and both DCHECKs
NextSpace(S, c) == SpaceAt(S, c)
NextChecks(S, c) == c <= LAST_MUTABLE_SPACE /\ SpaceAt(S, c) # NoSpace

\* SpaceIterator(Heap* heap), over a heap whose present spaces are S
InitIter ==
  /\ \E S \in SUBSET SpaceIds :
       it = [op |-> "new", spaces |-> S,
             current_space |-> FIRST_MUTABLE_SPACE,
             ret |-> FALSE, space |-> NoSpace, checks |-> TRUE,
             from |-> FIRST_MUTABLE_SPACE, has_from |-> FIRST_MUTABLE_SPACE,
             permitted |-> FALSE, ended |-> FALSE, yielded |-> <<>>,
             prev |-> [op |-> "new", ret |-> FALSE]]
  /\ ClIdle
  /\ ObsIdle
  /\ labs = <<>>
  /\ fillers = <<>>
  /\ held = {}
  /\ last = [op |-> "none"]
  /\ ops = 0
  /\ log = <<>>
  /\ nbuilt = 0

\* bool SpaceIterator::HasNext()
HasNext ==
  /\ it' = [it EXCEPT
              !.op = "HasNext",
              !.current_space = HasNextCursor(it.spaces, it.current_space),
              !.ret = HasNextResult(it.spaces, it.current_space),
              !.from = it.current_space,
              !.has_from = it.current_space,
              !.permitted = HasNextResult(it.spaces, it.current_space),
              !.ended = it.ended
                          \/ ~HasNextResult(it.spaces, it.current_space),
              !.prev = [op |-> it.op, ret |-> it.ret]]
  /\ UNCHANGED <<cl, labs, fillers, held, last, ops, log, nbuilt, obs>>

\* Space* SpaceIterator::Next(), called after HasNext() has returned true
Next ==
  /\ it.permitted
  /\ it' = [it EXCEPT
              !.op = "Next",
              !.current_space = it.current_space + 1,
              !.space = NextSpace(it.spaces, it.current_space),
              !.checks = NextChecks(it.spaces, it.current_space),
              !.from = it.current_space,
              !.permitted = FALSE,
              !.yielded = Append(it.yielded,
                                 NextSpace(it.spaces, it.current_space)),
              !.prev = [op |-> it.op, ret |-> it.ret]]
  /\ UNCHANGED <<cl, labs, fillers, held, last, ops, log, nbuilt, obs>>

NextIter == HasNext \/ Next

SpecIter == InitIter /\ [][NextIter]_vars

(***************************************************************************)
(* Observer delegation of SpaceWithLinearArea, and ComputeLimit on a space *)
(* whose observers are added, removed, paused and resumed.                 *)
(***************************************************************************)
MaxObservers == 2    \* observers registered at one time

\* heap()->IsAllocationObserverActive(): an observer is registered and the
\* observers are not paused
IsAllocationObserverActive(o) == o.count > 0 /\ ~o.paused

\* the allocator's registry after each delegated call
ObserverAdded(o) == [o EXCEPT !.count = o.count + 1]
ObserverRemoved(o) == [o EXCEPT !.count = o.count - 1]
ObserversPaused(o) == [o EXCEPT !.paused = TRUE]
ObserversResumed(o) == [o EXCEPT !.paused = FALSE, !.resumed = TRUE]

\* a limit computed before the registry changed says nothing about it
Stale == [cl EXCEPT !.returned = FALSE, !.step_size = 0, !.limit = 0]

InitObs ==
  /\ \E g \in BOOLEAN, i \in BOOLEAN, s \in BOOLEAN, f \in BOOLEAN,
        k \in 1..MaxNextBytes, st \in 0..MaxStart, m \in 0..MaxMinLow :
       cl = [in_gc |-> g, inline |-> i, supports |-> s, active |-> FALSE,
             next_bytes |-> k, stress |-> f,
             start |-> st, end |-> st + MaxSize, min_size |-> m,
             returned |-> FALSE, step_size |-> 0, limit |-> 0]
  /\ ObsIdle
  /\ ItIdle
  /\ LabIdle

\* SpaceWithLinearArea::AddAllocationObserver
AddAllocationObserver ==
  /\ obs.count < MaxObservers
  /\ obs' = ObserverAdded(obs)
  /\ cl' = Stale
  /\ UNCHANGED <<labs, fillers, held, last, ops, log, nbuilt, it>>

\* SpaceWithLinearArea::RemoveAllocationObserver
RemoveAllocationObserver ==
  /\ obs.count > 0
  /\ obs' = ObserverRemoved(obs)
  /\ cl' = Stale
  /\ UNCHANGED <<labs, fillers, held, last, ops, log, nbuilt, it>>

\* SpaceWithLinearArea::PauseAllocationObservers
PauseAllocationObservers ==
  /\ ~obs.paused
  /\ obs' = ObserversPaused(obs)
  /\ cl' = Stale
  /\ UNCHANGED <<labs, fillers, held, last, ops, log, nbuilt, it>>

\* SpaceWithLinearArea::ResumeAllocationObservers, matching a pause
ResumeAllocationObservers ==
  /\ obs.paused
  /\ obs' = ObserversResumed(obs)
  /\ cl' = Stale
  /\ UNCHANGED <<labs, fillers, held, last, ops, log, nbuilt, it>>

\* ComputeLimit on the space in its current observer state
ObsComputeLimit ==
  /\ ~cl.returned
  /\ LET a == IsAllocationObserverActive(obs)
     IN  cl' = [cl EXCEPT !.returned = TRUE,
                  !.active = a,
                  !.step_size =
                    StepSize(cl.supports, a, cl.next_bytes, cl.stress,
                             cl.start, cl.end),
                  !.limit =
                    ComputeLimit(cl.in_gc, cl.inline, cl.supports, a,
                                 cl.next_bytes, cl.stress,
                                 cl.start, cl.end, cl.min_size)]
  /\ UNCHANGED <<labs, fillers, held, last, ops, log, nbuilt, it, obs>>

NextObs ==
  \/ AddAllocationObserver
  \/ RemoveAllocationObserver
  \/ PauseAllocationObservers
  \/ ResumeAllocationObservers
  \/ ObsComputeLimit

SpecObs == InitObs /\ [][NextObs]_vars

(***************************************************************************)
(* Properties of ComputeLimit (checked under SpecLimit).                   *)
(***************************************************************************)
Returned == cl.returned

\* Round-down to object alignment on the unconverted number.
AlignDown(n) == n - (n % kObjectAlignment)

\* C1: for start <= end and min_size <= end - start, in every heap state,
\* ComputeLimit returns r with start + min_size <= r <= end.
C1_LimitWithinRegion ==
  Returned => /\ cl.start + cl.min_size <= cl.limit
              /\ cl.limit <= cl.end

\* a call whose result lies strictly inside the allowed range
C1_Witness ==
  /\ Returned
  /\ cl.start + cl.min_size < cl.limit
  /\ cl.limit < cl.end

\* C2: while the heap is in GC, ComputeLimit returns end whatever the
\* other flags are.
C2_InGCReturnsEnd ==
  (Returned /\ cl.in_gc) => cl.limit = cl.end

\* in GC with every other branch wanting a smaller limit
C2_Witness ==
  /\ Returned /\ cl.in_gc
  /\ ~cl.inline /\ cl.supports /\ cl.active /\ cl.stress
  /\ cl.min_size < cl.end - cl.start
  /\ cl.limit = cl.end

\* C3: not in GC and inline allocation disabled: ComputeLimit returns
\* start + min_size whatever the observer state and stress flag are.
C3_InlineDisabledExactFit ==
  (Returned /\ ~cl.in_gc /\ ~cl.inline) =>
    cl.limit = cl.start + cl.min_size

\* inline allocation disabled with room to spare and narrowing flags set
C3_Witness ==
  /\ Returned /\ ~cl.in_gc /\ ~cl.inline
  /\ cl.supports /\ cl.active /\ cl.stress
  /\ cl.min_size > 0
  /\ cl.start + cl.min_size < cl.end
  /\ cl.limit = cl.start + cl.min_size

ObserverCase ==
  /\ Returned /\ cl.active /\ ~cl.in_gc /\ cl.inline /\ ~cl.stress

\* C4 as stated: with an observer active (any space), not in GC, inline
\* enabled, stress off, the limit is
\* min(end, start + max(min_size, round_down(k - 1))).
C4_Original ==
  ObserverCase =>
    cl.limit = Min(cl.end,
                   cl.start + Max(cl.min_size, AlignDown(cl.next_bytes - 1)))

\* C4 (amended): the same, for a space that supports allocation observers,
\* with the round-down applied to k - 1 as line 75 converts it (to int and
\* back to size_t); for k - 1 within the int range that is the plain
\* round-down of k - 1.
C4_ObserverLimit ==
  (ObserverCase /\ cl.supports) =>
    /\ cl.limit = Min(cl.end,
                      cl.start + Max(cl.min_size, RoundedStep(cl.next_bytes)))
    /\ cl.next_bytes - 1 <= IntMax =>
         cl.limit = Min(cl.end,
                        cl.start + Max(cl.min_size,
                                       AlignDown(cl.next_bytes - 1)))

\* the observer step decides the limit: above min_size, below end
C4_Witness ==
  /\ ObserverCase /\ cl.supports
  /\ cl.next_bytes - 1 <= IntMax
  /\ cl.limit = cl.start + AlignDown(cl.next_bytes - 1)
  /\ cl.start + cl.min_size < cl.limit
  /\ cl.limit < cl.end

\* C5: stress_marking set, not in GC, inline enabled: the limit is at most
\* start + max(64, min_size).
C5_StressBound ==
  (Returned /\ cl.stress /\ ~cl.in_gc /\ cl.inline) =>
    cl.limit <= cl.start + Max(kStressMarkingStep, cl.min_size)

\* the stress clamp decides the limit of a region larger than 64 bytes
C5_Witness ==
  /\ Returned /\ cl.stress /\ ~cl.in_gc /\ cl.inline
  /\ cl.end - cl.start > kStressMarkingStep
  /\ cl.limit = cl.start + kStressMarkingStep

\* C6: not in GC, inline enabled, stress off, and the space does not
\* support observers or none is active: the limit is end.
C6_DefaultWholeRegion ==
  (Returned /\ ~cl.in_gc /\ cl.inline /\ ~cl.stress
     /\ (~cl.supports \/ ~cl.active)) =>
    cl.limit = cl.end

\* an observer is active with a short step, but the space does not
\* support observers: the whole region is used
C6_Witness ==
  /\ Returned /\ ~cl.in_gc /\ cl.inline /\ ~cl.stress
  /\ cl.active /\ ~cl.supports
  /\ AlignDown(cl.next_bytes - 1) < cl.end - cl.start
  /\ cl.min_size < cl.end - cl.start
  /\ cl.limit = cl.end

\* the observer branch of lines 65-77 is taken
ObserverBranch ==
  /\ Returned /\ ~cl.in_gc /\ cl.inline /\ cl.supports /\ cl.active

\* C14 as stated: when the observer branch is taken, the limit is never
\* start + k.
C14_Original ==
  ObserverBranch => cl.limit # cl.start + cl.next_bytes

\* C14 (amended): when the observer branch is taken and k - 1 is within
\* the int range, step_size is below k, and the limit is start + k only
\* when min_size = k.
C14_BelowSampleBoundary ==
  (ObserverBranch /\ cl.next_bytes - 1 <= IntMax) =>
    /\ cl.step_size < cl.next_bytes
    /\ cl.min_size # cl.next_bytes => cl.limit # cl.start + cl.next_bytes
    /\ cl.min_size = cl.next_bytes => cl.limit = cl.start + cl.next_bytes

\* k is a multiple of the alignment and fits the region: the limit stays
\* below start + k
C14_Witness ==
  /\ ObserverBranch /\ ~cl.stress
  /\ cl.next_bytes - 1 <= IntMax
  /\ cl.next_bytes % kObjectAlignment = 0
  /\ cl.end - cl.start >= cl.next_bytes
  /\ cl.min_size < cl.next_bytes
  /\ cl.limit < cl.start + cl.next_bytes

\* C19: when control reaches the final DCHECK_LE (not in GC, inline
\* enabled), start + step_size <= end.
C19_FinalAssertion ==
  (Returned /\ ~cl.in_gc /\ cl.inline) =>
    /\ cl.step_size <= cl.end - cl.start
    /\ SizeAdd(cl.start, cl.step_size) <= cl.end

\* the rounded step exceeds the region, and step_size is the region
C19_Witness ==
  /\ ObserverBranch /\ ~cl.stress
  /\ RoundedStep(cl.next_bytes) > cl.end - cl.start
  /\ cl.step_size = cl.end - cl.start
  /\ cl.end > cl.start

C18_NarrowsAfterResume ==
  /\ Returned /\ obs.resumed /\ ~obs.paused /\ obs.count > 0 /\ cl.supports
  /\ ~cl.in_gc /\ cl.inline /\ ~cl.stress
  /\ cl.limit < cl.end

(***************************************************************************)
(* Properties of LocalAllocationBuffer (checked under SpecLab).            *)
(***************************************************************************)
ClosedValid == last.op = "close" /\ IsValid(last.before[last.self])
ClosedInvalid == last.op = "close" /\ ~IsValid(last.before[last.self])
Moved == last.op = "move" /\ last.self # last.other

\* C7: a buffer constructed with a non-null area is Valid; closing a Valid
\* buffer returns the area it held just before and leaves it Invalid; a
\* buffer becomes Valid only by construction or as the destination of a
\* move from a Valid buffer.
C7_Lifecycle ==
  /\ (last.op = "construct" /\ last.arg # NullArea) =>
       /\ IsValid(labs[last.self])
       /\ labs[last.self].info = last.arg
  /\ ClosedValid =>
       /\ last.ret = last.before[last.self].info
       /\ ~IsValid(labs[last.self])
  /\ \A i \in Buffers :
       (IsValid(labs[i]) /\ ~IsValid(last.before[i])) =>
         \/ last.op = "construct" /\ last.self = i
         \/ /\ last.op = "move" /\ last.self = i
            /\ IsValid(last.before[last.other])

\* a Valid buffer has been closed and its area returned
C7_Witness ==
  /\ ClosedValid
  /\ last.ret \in Areas
  /\ last.prev.op = "construct" /\ last.prev.self = last.self

\* C8: CloseAndMakeIterable() on an Invalid buffer returns the null area,
\* makes no CreateFillerObjectAtBackground call and leaves the buffer's
\* heap reference and area unchanged.
C8_CloseIdempotent ==
  ClosedInvalid =>
    /\ last.ret = NullArea
    /\ Len(fillers) = last.nfill
    /\ labs = last.before

\* the second of two consecutive closes of a buffer that was Valid
C8_Witness ==
  /\ ClosedInvalid
  /\ last.prev.op = "close" /\ last.prev.self = last.self
  /\ Len(fillers) = 1
  /\ fillers[1].heap = labs[last.self].heap

\* C9: after moving buffer A into another buffer B, A is Invalid, B holds
\* the heap reference and area A held before, and no filler call was made.
C9_MoveTransfers ==
  Moved =>
    /\ ~IsValid(labs[last.other])
    /\ labs[last.self].heap = last.before[last.other].heap
    /\ labs[last.self].info = last.before[last.other].info
    /\ Len(fillers) = last.nfill

\* a Valid buffer moved into a Valid buffer of another heap and area
C9_Witness ==
  /\ Moved
  /\ IsValid(last.before[last.other]) /\ IsValid(last.before[last.self])
  /\ last.before[last.other].heap # last.before[last.self].heap
  /\ last.before[last.other].info # last.before[last.self].info
  /\ labs[last.self] = last.before[last.other]

Filled(a) ==
  \E k \in 1..Len(fillers) :
    fillers[k].addr = a.top /\ fillers[k].size = a.limit - a.top

\* C10: every non-null area a buffer has ever held is still held by some
\* buffer or has had a filler written over [top, limit).
C10_NoLeak ==
  \A a \in held : (\E i \in Buffers : labs[i].info = a) \/ Filled(a)

\* number of log entries of operation op on area a
LogCount(op, a) ==
  Cardinality({k \in 1..Len(log) : log[k].op = op /\ log[k].area = a})

\* the buffers were constructed with pairwise distinct non-null areas
DistinctlyBuilt == Cardinality(held) = nbuilt

\* C11: with buffers constructed with pairwise distinct non-null areas, no
\* two distinct buffers hold the same non-null area, and each non-null
\* area is returned by CloseAndMakeIterable() at most once.
C11_SingleOwner ==
  DistinctlyBuilt =>
    /\ \A i \in Buffers, j \in Buffers :
         (i # j /\ IsValid(labs[i])) => labs[i].info # labs[j].info
    /\ \A a \in held : LogCount("close", a) <= 1

\* two buffers built with distinct areas, one moved into the other, and
\* the destination closed: the area is returned once, the source is Invalid
C11_Witness ==
  /\ DistinctlyBuilt
  /\ Cardinality(held) = 2
  /\ ClosedValid
  /\ last.prev.op = "move" /\ last.prev.self = last.self
  /\ LogCount("close", last.ret) = 1
  /\ \A i \in Buffers : ~IsValid(labs[i])

MadeIterable == last.op = "iterable"

\* C15: MakeIterable() on a Valid buffer makes exactly one filler call, at
\* top with size limit - top, and leaves the buffer as it was; on an
\* Invalid buffer it makes no call and changes nothing.
C15_MakeIterableEffect ==
  MadeIterable =>
    /\ labs = last.before
    /\ IsValid(last.before[last.self]) =>
         /\ Len(fillers) = last.nfill + 1
         /\ fillers[Len(fillers)].addr = last.before[last.self].info.top
         /\ fillers[Len(fillers)].size =
              last.before[last.self].info.limit
                - last.before[last.self].info.top
         /\ fillers[Len(fillers)].heap = last.before[last.self].heap
    /\ ~IsValid(last.before[last.self]) => Len(fillers) = last.nfill

\* MakeIterable() on a Valid buffer with a non-empty remainder
C15_Witness ==
  /\ MadeIterable
  /\ IsValid(labs[last.self])
  /\ labs[last.self].info.limit > labs[last.self].info.top
  /\ Len(fillers) = last.nfill + 1

\* number of filler calls over the range [top, limit) of area a
FillCount(a) ==
  Cardinality({k \in 1..Len(fillers) :
                 fillers[k].addr = a.top
                   /\ fillers[k].size = a.limit - a.top})

\* C16 as stated: with buffers constructed with distinct areas, the filler
\* call for an area's [top, limit) is made at most once.
C16_Original ==
  DistinctlyBuilt => \A a \in held : FillCount(a) <= 1

\* C16 (amended): with buffers constructed with distinct areas, the filler
\* calls for an area's [top, limit) are one per MakeIterable() call on the
\* Valid buffer holding it plus one for its CloseAndMakeIterable(), which
\* happens at most once; a move makes none.
C16_FillerPerCall ==
  /\ DistinctlyBuilt =>
       \A a \in held :
         /\ FillCount(a) = LogCount("iterable", a) + LogCount("close", a)
         /\ LogCount("close", a) <= 1
  /\ last.op = "move" => Len(fillers) = last.nfill

\* MakeIterable() then CloseAndMakeIterable() on the same Valid buffer:
\* the same range is written twice
C16_Witness ==
  /\ DistinctlyBuilt
  /\ ClosedValid
  /\ last.prev.op = "iterable" /\ last.prev.self = last.self
  /\ FillCount(last.ret) = 2
  /\ LogCount("close", last.ret) = 1

(***************************************************************************)
(* Properties of SpaceIterator (checked under SpecIter).                   *)
(***************************************************************************)
\* the ids of S in ascending order
RECURSIVE Ascending(_)
Ascending(S) ==
  IF S = {} THEN <<>>
  ELSE LET m == CHOOSE x \in S : \A y \in S : x <= y
       IN  <<m>> \o Ascending(S \ {m})

\* C12: for a fixed set of present spaces, HasNext()/Next() yield the
\* present spaces, each once, in ascending id order, and once HasNext() has
\* returned false every later HasNext() returns false.
C12_YieldsPresentAscending ==
  /\ it.yielded = Ascending({id \in it.spaces : id < it.current_space})
  /\ it.ended => it.yielded = Ascending(it.spaces)
  /\ (it.ended /\ it.op = "HasNext") => ~it.ret
  /\ it.ended => ~it.permitted

\* spaces {2, 5, 7}: all three yielded, and HasNext() called again after
\* it had returned false
C12_Witness ==
  /\ it.spaces = {2, 5, 7}
  /\ it.yielded = <<2, 5, 7>>
  /\ it.op = "HasNext" /\ ~it.ret
  /\ it.prev.op = "HasNext" /\ ~it.prev.ret

\* C13: a HasNext() right after a HasNext() returns the same boolean and
\* leaves the cursor where it was; HasNext() moves the cursor only forward,
\* and only past null slots.
C13_HasNextIdempotent ==
  /\ (it.op = "HasNext" /\ it.prev.op = "HasNext") =>
       /\ it.ret = it.prev.ret
       /\ it.current_space = it.from
  /\ it.op = "HasNext" =>
       /\ it.current_space >= it.from
       /\ \A id \in it.from..(it.current_space - 1) :
            SpaceAt(it.spaces, id) = NoSpace

\* a second HasNext() on a cursor the first one had moved past null slots
\* to a present space
C13_Witness ==
  /\ it.op = "HasNext" /\ it.prev.op = "HasNext"
  /\ it.ret
  /\ it.current_space > FIRST_MUTABLE_SPACE
  /\ it.yielded = <<>>

\* C17: when Next() is called only after a HasNext() that returned true,
\* both DCHECKs of Next() hold, Next() returns the present space with the
\* smallest id at or after the cursor that HasNext() started from, Next()
\* advances the cursor by one, and the cursor stays within
\* [FIRST_MUTABLE_SPACE, LAST_MUTABLE_SPACE + 1] and never decreases.
C17_ProtocolSafety ==
  /\ it.op = "Next" =>
       /\ it.checks
       /\ it.space \in it.spaces
       /\ it.space >= it.has_from
       /\ \A o \in it.spaces : o >= it.has_from => it.space <= o
       /\ it.current_space = it.from + 1
  /\ it.current_space >= FIRST_MUTABLE_SPACE
  /\ it.current_space <= LAST_MUTABLE_SPACE + 1
  /\ it.current_space >= it.from

\* a second Next(), returning a space that HasNext() reached by skipping
\* null slots
C17_Witness ==
  /\ it.op = "Next"
  /\ Len(it.yielded) = 2
  /\ it.space > it.has_from
  /\ it.checks

=============================================================================
